---- MODULE Spec2Model ----
(***************************************************************************)
(* Model of the authentication core of the acquisitions API:               *)
(*   - src/services/auth.service.js  (hashPassword, createUser)            *)
(*   - src/utils/jwt.js              (jwttoken.sign, jwttoken.verify)      *)
(*   - src/app.js                    (the express middleware chain)        *)
(*   - the security middleware shown in the README                         *)
(*   - src/validations/auth.validations.js (signupSchema, signInSchema)    *)
(*   - the session cookie shown in the README, sign-in and sign-out        *)
(* Each part has its own specification over the shared variables.          *)
(***************************************************************************)
EXTENDS Integers, Sequences, FiniteSets, TLC

VARIABLES
    users,      \* rows of the users table (the store)
    nextId,     \* next value of the serial id column
    log,        \* entries written through the winston logger, in order
    calls,      \* one record per createUser call: position and locals
    env,        \* process.env: JWT_SECRET, JWT_EXPIRES_IN
    svc,        \* "loading" until utils/jwt.js has been evaluated, then "up"
    now,        \* the clock, in seconds
    issued,     \* the tokens jwttoken.sign has returned
    verified,   \* the outcome of the latest jwttoken.verify call
    reqs,       \* the HTTP requests the express app is handling
    failOpen,   \* the gate's configured answer to its own failure
    active,     \* the identities sending requests through the gate
    window,     \* per identity key: ages (s) of the requests counted in the window
    last,       \* the outcome of the latest securityMiddleware run
    signups,    \* one record per sign-up request: body and validation outcome
    cookie,     \* the client's cookie jar: the cookie named token, if any
    resp,       \* the latest response of a sign-in or sign-out request
    failures,   \* the failed sign-in attempts seen so far: cause and response
    signout,    \* the latest sign-out: the token it dropped and its time
    flights,    \* the requests in flight between the gate and the counter
    admitted    \* per identity key: ages (s) of the requests let through

vars == <<users, nextId, log, calls, env, svc, now, issued, verified,
          reqs, failOpen, active, window, last,
          signups, cookie, resp, failures, signout, flights, admitted>>

userVars == <<users, nextId, calls>>
tokenVars == <<env, svc, now, issued, verified>>
appVars == <<reqs>>
gateVars == <<failOpen, active, window, last>>
signupVars == <<signups>>
sessionVars == <<cookie, resp, failures, signout>>
flightVars == <<flights, admitted>>

----------------------------------------------------------------------------
(* Bounds and input sets                                                   *)

NumCalls == 2

Calls == 1..NumCalls

\* what a non-string argument looks like to bcrypt.hash
Undefined == "<undefined>"

Names == {"Ann"}
Emails == {"a@x.com", "b@x.com"}
Passwords == {"Secret123", Undefined}
Roles == {"user", "admin"}
Salts == {"saltA", "saltB"}

----------------------------------------------------------------------------
(* Errors and log entries                                                  *)

\* an Error object: its message and, for a DrizzleQueryError, the query params
Err(message, params) == [message |-> message, params |-> params]

NoError == Err("", <<>>)

DuplicateEmailMsg == "User with this email already exists"
HashingMsg == "Error hashing password"
BcryptArgsMsg == "data and salt arguments required"
UniqueViolationMsg == "duplicate key value violates unique constraint users_email_unique"
StoreDownMsg == "fetch failed"

\* logger.error(message, { error: e }) / logger.info(message)
LogEntry(level, message, error) == [level |-> level, message |-> message, error |-> error]

Range(s) == {s[i] : i \in DOMAIN s}

----------------------------------------------------------------------------
(* bcrypt                                                                  *)

SaltRounds == 12

CostText(rounds) == IF rounds = 12 THEN "12" ELSE IF rounds = 10 THEN "10" ELSE "04"

\* a mutant of BcryptHash: the password comes back unhashed
BcryptHashPlain(password, rounds, salt) == password

\* bcrypt.hash(password, rounds) with the salt it drew: the modular-crypt string
\* "$2b$<cost>$<salt><digest>", the digest kept symbolic as H(password)
BcryptHash(password, rounds, salt) ==
    "$2b$" \o CostText(rounds) \o "$" \o salt \o "H(" \o password \o ")"

\* bcrypt.compare(password, hashed): rehash with the salt and cost of `hashed`
BcryptCompare(password, hashed) ==
    \E s \in Salts, r \in {4, 10, 12} : hashed = BcryptHash(password, r, s)

\* bcrypt.hash rejects when data is not a string (or Buffer)
BcryptAccepts(password) == password # Undefined

----------------------------------------------------------------------------
(* The users table                                                         *)

NoRow ==
    [id |-> 0, name |-> "", email |-> "", password |-> "", role |-> "",
     createdAt |-> 0]

\* email: text('email').notNull().unique()
UniqueViolation(us, email) == \E u \in us : u.email = email

\* the row the insert writes: id from the serial, created_at from defaultNow()
NewRow(id, name, email, passwordHash, role, at) ==
    [id |-> id, name |-> name, email |-> email, password |-> passwordHash,
     role |-> role, createdAt |-> at]

\* the arguments createUser passes to .returning(...): five objects, each
\* a set of <<result key, column>> pairs
ReturningArgs ==
    << {<<"id", "id">>}, {<<"name", "name">>}, {<<"email", "email">>},
       {<<"role", "role">>}, {<<"created_at", "created_at">>} >>

ColumnOf(fields, key) == (CHOOSE p \in fields : p[1] = key)[2]

\* .returning(fields): drizzle reads its first parameter only
Returning(args, row) ==
    LET fields == args[1]
    IN  [k \in {p[1] : p \in fields} |-> row[ColumnOf(fields, k)]]

----------------------------------------------------------------------------
(* createUser: the duplicate check of lines 19-23                          *)

\* db.select().from(users).where(eq(users.email,email)).limit(1), not awaited:
\* a query builder, not an array of rows
SelectBuilder(email) == [builder |-> TRUE, where |-> email, rows |-> <<>>]

\* the value of a missing .length property when compared as a number
UndefinedLength == -1

\* exisitingUser.length
LengthOf(v) == IF v.builder THEN UndefinedLength ELSE Len(v.rows)

\* exisitingUser.length > 0   (undefined > 0 is false)
GreaterThanZero(n) == n # UndefinedLength /\ n > 0

----------------------------------------------------------------------------
(* createUser as a process                                                 *)

NoResult == [none |-> TRUE]

IdleCall ==
    [pc |-> "idle", name |-> "", email |-> "", password |-> "", role |-> "",
     passwordHash |-> "", err |-> NoError, result |-> NoResult,
     existed |-> FALSE, attempted |-> FALSE, inserted |-> NoRow,
     hashed |-> FALSE, insertsSent |-> 0]

\* the catch block of createUser: log and rethrow
CatchCreateUser(c, e, entries) ==
    /\ log' = log \o entries \o <<LogEntry("error", <<"Error creating user">>, e)>>
    /\ calls' = [calls EXCEPT ![c].pc = "done", ![c].err = e]

\* createUser({name,email,password,role}) up to its first await
CreateUserCall(c, name, email, password, role) ==
    /\ calls[c].pc = "idle"
    /\ LET exisitingUser == SelectBuilder(email)
           started == [calls[c] EXCEPT !.name = name, !.email = email,
                          !.password = password, !.role = role,
                          !.existed = (\E u \in users : u.email = email)]
       IN  IF GreaterThanZero(LengthOf(exisitingUser))
           THEN /\ log' = log \o <<LogEntry("error", <<"Error creating user">>,
                                            Err(DuplicateEmailMsg, <<>>))>>
                /\ calls' = [calls EXCEPT ![c] =
                                [started EXCEPT !.pc = "done",
                                     !.err = Err(DuplicateEmailMsg, <<>>)]]
           ELSE /\ calls' = [calls EXCEPT ![c] = [started EXCEPT !.pc = "hashing"]]
                /\ log' = log
    /\ UNCHANGED <<signupVars, sessionVars, flightVars,
                 users, nextId, tokenVars, appVars, gateVars>>

\* a mutant of HashPasswordSettle: the catch block of hashPassword logs and
\* does not rethrow, so a failed hash comes back as undefined
HashPasswordSettleSwallow(c, salt) ==
    /\ calls[c].pc = "hashing"
    /\ IF BcryptAccepts(calls[c].password)
       THEN /\ calls' = [calls EXCEPT ![c].pc = "inserting", ![c].hashed = TRUE,
                            ![c].insertsSent = @ + 1,
                            ![c].passwordHash =
                                BcryptHash(calls[c].password, SaltRounds, salt)]
            /\ log' = log
       ELSE /\ calls' = [calls EXCEPT ![c].pc = "inserting",
                            ![c].insertsSent = @ + 1,
                            ![c].passwordHash = Undefined]
            /\ log' = log \o <<LogEntry("error", <<HashingMsg>>,
                                        Err(BcryptArgsMsg, <<>>))>>
    /\ UNCHANGED <<signupVars, sessionVars, flightVars,
                 users, nextId, tokenVars, appVars, gateVars>>

\* hashPassword settles: bcrypt.hash resolved, or rejected and caught twice;
\* on success createUser sends its insert
HashPasswordSettle(c, salt) ==
    /\ calls[c].pc = "hashing"
    /\ IF BcryptAccepts(calls[c].password)
       THEN /\ calls' = [calls EXCEPT ![c].pc = "inserting", ![c].hashed = TRUE,
                            ![c].insertsSent = @ + 1,
                            ![c].passwordHash =
                                BcryptHash(calls[c].password, SaltRounds, salt)]
            /\ log' = log
       ELSE CatchCreateUser(c, Err(HashingMsg, <<>>),
                <<LogEntry("error", <<HashingMsg>>, Err(BcryptArgsMsg, <<>>))>>)
    /\ UNCHANGED <<signupVars, sessionVars, flightVars,
                 users, nextId, tokenVars, appVars, gateVars>>

\* the parameters of the insert statement, as a DrizzleQueryError carries them
InsertParams(c) ==
    <<calls[c].name, calls[c].email, calls[c].passwordHash, calls[c].role>>

\* db.insert(users).values(...).returning(...) settles at the store
InsertSettle(c) ==
    /\ calls[c].pc = "inserting"
    /\ nextId' = nextId + 1
    /\ IF UniqueViolation(users, calls[c].email)
       THEN /\ log' = log \o <<LogEntry("error", <<"Error creating user">>,
                                        Err(UniqueViolationMsg, InsertParams(c)))>>
            /\ calls' = [calls EXCEPT ![c].pc = "done", ![c].attempted = TRUE,
                            ![c].err = Err(UniqueViolationMsg, InsertParams(c))]
            /\ users' = users
       ELSE LET row == NewRow(nextId, calls[c].name, calls[c].email,
                              calls[c].passwordHash, calls[c].role, now)
            IN  /\ users' = users \cup {row}
                /\ log' = log \o
                       <<LogEntry("info",
                                  <<"User created with email: ", calls[c].email,
                                    " and role: ", calls[c].role>>, NoError)>>
                /\ calls' = [calls EXCEPT ![c].pc = "done", ![c].attempted = TRUE,
                                ![c].inserted = row,
                                ![c].result = Returning(ReturningArgs, row)]
    /\ UNCHANGED <<signupVars, sessionVars, flightVars,
                 tokenVars, appVars, gateVars>>

\* a mutant of InsertFail: the insert is sent again after a failed query
InsertFailRetry(c) ==
    /\ calls[c].pc = "inserting"
    /\ log' = log \o <<LogEntry("error", <<"Error creating user">>,
                                Err(StoreDownMsg, InsertParams(c)))>>
    /\ calls' = [calls EXCEPT ![c].insertsSent = @ + 1]
    /\ UNCHANGED <<signupVars, sessionVars, flightVars,
                 users, nextId, tokenVars, appVars, gateVars>>

\* the insert never reaches the store (the HTTP query fails)
InsertFail(c) ==
    /\ calls[c].pc = "inserting"
    /\ log' = log \o <<LogEntry("error", <<"Error creating user">>,
                                Err(StoreDownMsg, InsertParams(c)))>>
    /\ calls' = [calls EXCEPT ![c].pc = "done",
                    ![c].err = Err(StoreDownMsg, InsertParams(c))]
    /\ UNCHANGED <<signupVars, sessionVars, flightVars,
                 users, nextId, tokenVars, appVars, gateVars>>

UserInit ==
    /\ users = {}
    /\ nextId = 1
    /\ calls = [c \in Calls |-> IdleCall]

----------------------------------------------------------------------------
(* utils/jwt.js: configuration                                             *)

MaxTokens == 2
MaxLog == 2

\* a || b
Or(a, b) == IF a \in {Undefined, ""} THEN b ELSE a

DefaultSecret == "secret-key-for-production"

\* a mutant of JWT_EXPRIRES_IN: the default the README documents
JWT_EXPRIRES_IN_7d == Or(env.JWT_EXPIRES_IN, "7d")

\* const JWT_SECRET = process.env.JWT_SECRET || 'secret-key-for-production'
JWT_SECRET == Or(env.JWT_SECRET, DefaultSecret)

\* const JWT_EXPRIRES_IN = process.env.JWT_EXPIRES_IN || '1d'
JWT_EXPRIRES_IN == Or(env.JWT_EXPIRES_IN, "1d")

Envs ==
    [JWT_SECRET : {Undefined, "strong-production-secret"},
     JWT_EXPIRES_IN : {Undefined, "1h", "soon"},
     NODE_ENV : {Undefined}]

\* the instants the clock is observed at
TimePoints == {0, 3599, 3600, 86399, 86400}

----------------------------------------------------------------------------
(* jsonwebtoken                                                            *)

NoSpan == -1

\* ms(str) / 1000: the timespan of an expiresIn string, NoSpan when ms cannot
\* read it
Timespan(str) ==
    CASE str = "1h" -> 3600
      [] str = "1d" -> 86400
      [] str = "7d" -> 604800
      [] OTHER -> NoSpan

NoClaims == [id |-> 0, role |-> ""]
ClaimSets == {[id |-> 1, role |-> "user"]}

Payload(claims, iat, exp) == [claims |-> claims, iat |-> iat, exp |-> exp]
NoPayload == Payload(NoClaims, 0, 0)

\* HMAC-SHA256 of the encoded header and payload under `key`, kept symbolic;
\* flip marks a signature one byte of which was changed
Hmac(payload, key) == [of |-> payload, key |-> key, flip |-> FALSE]

Token(payload, sig) == [wellFormed |-> TRUE, payload |-> payload, sig |-> sig]

\* a string that is not three base64url segments
MalformedToken == [wellFormed |-> FALSE, payload |-> NoPayload, sig |-> Hmac(NoPayload, "")]

\* jwt.sign(payload, secret, { expiresIn }): the token, or the error it throws
JwtSign(claims, secret, expiresIn, at) ==
    IF Timespan(expiresIn) = NoSpan
    THEN [ok |-> FALSE, token |-> MalformedToken,
          err |-> Err("\"expiresIn\" should be a number of seconds or string representing a timespan", <<>>)]
    ELSE LET payload == Payload(claims, at, at + Timespan(expiresIn))
         IN  [ok |-> TRUE, token |-> Token(payload, Hmac(payload, secret)),
              err |-> NoError]

\* jwt.verify(token, secret): the decoded payload, or the error it throws
JwtVerify(token, secret, at) ==
    IF ~token.wellFormed
    THEN [ok |-> FALSE, payload |-> NoPayload, err |-> Err("jwt malformed", <<>>)]
    ELSE IF token.sig # Hmac(token.payload, secret)
    THEN [ok |-> FALSE, payload |-> NoPayload, err |-> Err("invalid signature", <<>>)]
    ELSE IF at >= token.payload.exp
    THEN [ok |-> FALSE, payload |-> NoPayload, err |-> Err("jwt expired", <<>>)]
    ELSE [ok |-> TRUE, payload |-> token.payload, err |-> NoError]

----------------------------------------------------------------------------
(* What a client can present to jwttoken.verify                            *)

\* one byte of the signature changed
FlipSignature(t) == [t EXCEPT !.sig.flip = TRUE]

\* the role claim rewritten, the signature kept
RewriteRole(t) == [t EXCEPT !.payload.claims.role = "admin"]

\* a token made without the server: signed with a key the maker chose
Forged(key) ==
    LET payload == Payload([id |-> 1, role |-> "admin"], 0, 604800)
    IN  Token(payload, Hmac(payload, key))

Presentable ==
    issued
    \cup {FlipSignature(t) : t \in issued}
    \cup {RewriteRole(t) : t \in issued}
    \cup {MalformedToken, Forged(DefaultSecret), Forged("guess")}

----------------------------------------------------------------------------
(* utils/jwt.js: jwttoken                                                  *)

InvalidTokenMsg == "Invalid token"
SignFailedMsg == "Failed to authenticate user"

NotVerified ==
    [done |-> FALSE, token |-> MalformedToken, at |-> 0, ok |-> FALSE,
     value |-> NoPayload, err |-> NoError]

\* a mutant of VerifyOutcome: the library's error is rethrown as it is
VerifyOutcomeRethrow(token, secret, at) ==
    LET r == JwtVerify(token, secret, at)
    IN  [done |-> TRUE, token |-> token, at |-> at, ok |-> r.ok,
         value |-> r.payload, err |-> r.err]

\* a mutant of VerifyOutcome: a token dropped by the latest sign-out is refused
VerifyOutcomeRevoking(token, secret, at) ==
    LET r == JwtVerify(token, secret, at)
        revoked == signout.done /\ signout.had /\ signout.token = token
    IN  [done |-> TRUE, token |-> token, at |-> at, ok |-> r.ok /\ ~revoked,
         value |-> IF r.ok /\ ~revoked THEN r.payload ELSE NoPayload,
         err |-> IF r.ok /\ ~revoked THEN NoError ELSE Err(InvalidTokenMsg, <<>>)]

\* jwttoken.verify: what the caller gets, a value or the thrown error
VerifyOutcome(token, secret, at) ==
    LET r == JwtVerify(token, secret, at)
    IN  [done |-> TRUE, token |-> token, at |-> at, ok |-> r.ok,
         value |-> r.payload,
         err |-> IF r.ok THEN NoError ELSE Err(InvalidTokenMsg, <<>>)]

\* utils/jwt.js is evaluated: the two constants are read from process.env
LoadJwtModule ==
    /\ svc = "loading"
    /\ svc' = "up"
    /\ UNCHANGED <<signupVars, sessionVars, flightVars,
                 userVars, appVars, gateVars, log, env, now, issued, verified>>

\* jwttoken.sign(payload)
JwttokenSign(claims) ==
    /\ svc = "up"
    /\ Cardinality(issued) < MaxTokens
    /\ Len(log) < MaxLog
    /\ LET r == JwtSign(claims, JWT_SECRET, JWT_EXPRIRES_IN, now)
       IN  IF r.ok
           THEN /\ issued' = issued \cup {r.token}
                /\ log' = log
           ELSE /\ log' = log \o <<LogEntry("error", <<SignFailedMsg>>, r.err)>>
                /\ issued' = issued
    /\ UNCHANGED <<signupVars, sessionVars, flightVars,
                 userVars, appVars, gateVars, env, svc, now, verified>>

\* jwttoken.verify(token)
JwttokenVerify(token) ==
    /\ svc = "up"
    /\ Len(log) < MaxLog
    /\ verified' = VerifyOutcome(token, JWT_SECRET, now)
    /\ log' = IF JwtVerify(token, JWT_SECRET, now).ok THEN log
              ELSE log \o <<LogEntry("error", <<InvalidTokenMsg>>,
                                     JwtVerify(token, JWT_SECRET, now).err)>>
    /\ UNCHANGED <<signupVars, sessionVars, flightVars,
                 userVars, appVars, gateVars, env, svc, now, issued>>

\* time passes
Tick(t) ==
    /\ t > now
    /\ now' = t
    /\ UNCHANGED <<signupVars, sessionVars, flightVars,
                 userVars, appVars, gateVars, log, env, svc, issued, verified>>

TokenIdle ==
    /\ env = [JWT_SECRET |-> Undefined, JWT_EXPIRES_IN |-> Undefined,
              NODE_ENV |-> Undefined]
    /\ svc = "loading"
    /\ now = 0
    /\ issued = {}
    /\ verified = NotVerified

----------------------------------------------------------------------------
(* app.js: the express application                                         *)

NumReqs == 2

ReqIds == 1..NumReqs

Methods == {"GET", "POST"}

\* request paths, as their segments
Paths ==
    { <<>>, <<"health">>, <<"api">>, <<"api", "auth", "sign-up">>,
      <<"api", "auth", "sign-in">>, <<"nope">> }

\* app.use(...) of lines 11-13: run in the tick the request arrives in
HeadChain == <<"helmet", "cors", "cookieParser">>

\* app.use(...) of lines 15-18: run once the body has been read
BodyChain == <<"express.json", "urlencoded", "morgan">>

\* app.use(path, ...) matches every path that starts with `mount`
Mounted(mount, path) ==
    Len(path) >= Len(mount) /\ SubSeq(path, 1, Len(mount)) = mount

\* the routes of lines 23-35, in order: the first that matches handles the request
Route(method, path) ==
    CASE method = "GET" /\ path = <<>> -> "root"
      [] Mounted(<<"health">>, path) -> "health"
      [] method = "GET" /\ path = <<"api">> -> "api"
      [] Mounted(<<"api", "auth">>, path) -> "authRoutes"
      [] OTHER -> "notFound"

NewReq ==
    [state |-> "new", method |-> "", path |-> <<>>, ran |-> <<>>,
     gate |-> "none", status |-> 0]

\* morgan('combined') writes one line through logger.info when a response ends
MorganLine(r, status) ==
    LogEntry("info", <<reqs[r].method, reqs[r].path, status>>, NoError)

\* a request arrives: helmet, cors and cookieParser run, express.json starts
\* reading the body
Receive(r, method, path) ==
    /\ reqs[r].state = "new"
    /\ reqs' = [reqs EXCEPT ![r] = [NewReq EXCEPT !.state = "body", !.method = method,
                                        !.path = path, !.ran = HeadChain]]
    /\ UNCHANGED <<signupVars, sessionVars, flightVars,
                 userVars, tokenVars, gateVars, log>>

\* the body is read: the rest of the chain runs and the request is routed
Dispatch(r) ==
    /\ reqs[r].state = "body"
    /\ LET route == Route(reqs[r].method, reqs[r].path)
           ran == reqs[r].ran \o BodyChain \o <<route>>
       IN  CASE route = "root" ->
                  /\ reqs' = [reqs EXCEPT ![r].state = "responded", ![r].ran = ran,
                                 ![r].status = 200]
                  /\ log' = log \o <<LogEntry("info", <<"hello acquisitions api">>, NoError),
                                     MorganLine(r, 200)>>
             [] route \in {"health", "api"} ->
                  /\ reqs' = [reqs EXCEPT ![r].state = "responded", ![r].ran = ran,
                                 ![r].status = 200]
                  /\ log' = log \o <<MorganLine(r, 200)>>
             [] route = "authRoutes" ->
                  /\ reqs' = [reqs EXCEPT ![r].state = "pipeline", ![r].ran = ran]
                  /\ log' = log
             [] OTHER ->
                  /\ reqs' = [reqs EXCEPT ![r].state = "responded", ![r].ran = ran,
                                 ![r].status = 404]
                  /\ log' = log \o <<MorganLine(r, 404)>>
    /\ UNCHANGED <<signupVars, sessionVars, flightVars,
                 userVars, tokenVars, gateVars>>

\* what the auth pipeline answers: created, ok, validation error, conflict,
\* unauthorized, server fault
PipelineStatuses == {200, 201, 400, 401, 409, 500}

\* the auth pipeline (validation, store, hashing, signing) answers the request
PipelineRespond(r, status) ==
    /\ reqs[r].state = "pipeline"
    /\ reqs' = [reqs EXCEPT ![r].state = "responded", ![r].status = status]
    /\ log' = log \o <<MorganLine(r, status)>>
    /\ UNCHANGED <<signupVars, sessionVars, flightVars,
                 userVars, tokenVars, gateVars>>

AppIdle == reqs = [r \in ReqIds |-> NewReq]

----------------------------------------------------------------------------
(* The security middleware (README, "Security Middleware")                 *)

\* one sender: the key arcjet counts under and the role on req.user
\* (Undefined when the request carries no authenticated user)
Identities ==
    { [key |-> "anon", role |-> Undefined],
      [key |-> "u1", role |-> "user"],
      [key |-> "a1", role |-> "admin"] }

Keys == {i.key : i \in Identities}

\* const role = req.user?.role || 'guest'
RoleOf(role) == Or(role, "guest")

\* a mutant of LimitFor: an off-by-one guest limit
LimitForLoose(role) == IF role = "admin" THEN 20 ELSE IF role = "user" THEN 10 ELSE 6

\* const limit = role === 'admin' ? 20 : role === 'user' ? 10 : 5
LimitFor(role) == IF role = "admin" THEN 20 ELSE IF role = "user" THEN 10 ELSE 5

\* interval: '1m'
WindowSeconds == 60

\* the steps the clock is advanced by
Steps == {30, 60}

\* the ages still inside the window after d seconds
Aged(ages, d) ==
    LET older == [i \in DOMAIN ages |-> ages[i] + d]
    IN  SelectSeq(older, LAMBDA a : a < WindowSeconds)

NoOutcome ==
    [key |-> "", role |-> "", decision |-> "none", reason |-> "", next |-> FALSE,
     before |-> 0]

Outcome(id, decision, reason, next) ==
    [key |-> id.key, role |-> RoleOf(id.role), decision |-> decision,
     reason |-> reason, next |-> next, before |-> Len(window[id.key])]

\* a mutant of OnGateFailure: the request is let through whatever the setting
OnGateFailureOpen(id) == Outcome(id, "none", "error", TRUE)

\* client.protect(req) gives no decision: the request is let through only when
\* fail-open is configured
OnGateFailure(id) == Outcome(id, "none", "error", failOpen)

\* securityMiddleware(req, res, next) for a request of identity id; bot, shield
\* and down are what arcjet's scoring and infrastructure answer for it
SecurityMiddleware(id, bot, shield, down) ==
    /\ id \in active
    /\ LET limit == LimitFor(RoleOf(id.role))
       IN  IF down
           THEN /\ last' = OnGateFailure(id)
                /\ window' = window
           ELSE IF bot
           THEN /\ last' = Outcome(id, "deny", "bot", FALSE)
                /\ window' = window
           ELSE IF shield
           THEN /\ last' = Outcome(id, "deny", "shield", FALSE)
                /\ window' = window
           ELSE IF Len(window[id.key]) >= limit
           THEN /\ last' = Outcome(id, "deny", "rate-limit", FALSE)
                /\ window' = window
           ELSE /\ last' = Outcome(id, "allow", "", TRUE)
                /\ window' = [window EXCEPT ![id.key] = <<0>> \o @]
    /\ UNCHANGED <<signupVars, sessionVars, flightVars,
                 userVars, tokenVars, appVars, log, failOpen, active>>

\* d seconds pass: counted requests age and leave the window
Elapse(d) ==
    /\ \E k \in Keys : window[k] # <<>>
    /\ window' = [k \in Keys |-> Aged(window[k], d)]
    /\ UNCHANGED <<signupVars, sessionVars, flightVars,
                 userVars, tokenVars, appVars, log, failOpen, active, last>>

GateIdle ==
    /\ failOpen = FALSE
    /\ active = {}
    /\ window = [k \in Keys |-> <<>>]
    /\ last = NoOutcome

----------------------------------------------------------------------------
(* validations/auth.validations.js: the zod schemas                        *)
(* Text that a schema inspects is a sequence of characters.                *)

Upper == <<"A", "B", "C", "D", "E", "F", "G", "H", "I", "J", "K", "L", "M",
           "N", "O", "P", "Q", "R", "S", "T", "U", "V", "W", "X", "Y", "Z">>
Lower == <<"a", "b", "c", "d", "e", "f", "g", "h", "i", "j", "k", "l", "m",
           "n", "o", "p", "q", "r", "s", "t", "u", "v", "w", "x", "y", "z">>
Letters == Range(Upper) \cup Range(Lower)

\* the JavaScript string of a character sequence
RECURSIVE Text(_)
Text(cs) == IF cs = <<>> THEN "" ELSE Head(cs) \o Text(Tail(cs))

\* String.prototype.toLowerCase, character by character
ToLowerCaseChar(ch) ==
    IF \E i \in DOMAIN Upper : Upper[i] = ch
    THEN Lower[CHOOSE i \in DOMAIN Upper : Upper[i] = ch]
    ELSE ch

ToLowerCase(cs) == [i \in DOMAIN cs |-> ToLowerCaseChar(cs[i])]

\* String.prototype.trim
RECURSIVE TrimStart(_)
TrimStart(cs) ==
    IF cs # <<>> /\ Head(cs) = " " THEN TrimStart(Tail(cs)) ELSE cs

RECURSIVE TrimEnd(_)
TrimEnd(cs) ==
    IF cs # <<>> /\ cs[Len(cs)] = " "
    THEN TrimEnd(SubSeq(cs, 1, Len(cs) - 1))
    ELSE cs

Trim(cs) == TrimEnd(TrimStart(cs))

\* zod's email format: a local part, one @, dot-separated labels and a
\* top-level label of two letters or more; white space is not allowed
IsEmail(cs) ==
    \E k \in DOMAIN cs :
        /\ cs[k] = "@"
        /\ k > 1
        /\ \A i \in 1..(k - 1) : cs[i] \in Letters \cup {".", "_", "+", "-"}
        /\ cs[1] # "." /\ cs[k - 1] # "."
        /\ k + 1 <= Len(cs) /\ cs[k + 1] \in Letters
        /\ \A i \in (k + 1)..Len(cs) : cs[i] \in Letters \cup {".", "-"}
        /\ \A i \in 1..(Len(cs) - 1) : ~(cs[i] = "." /\ cs[i + 1] = ".")
        /\ \E d \in (k + 2)..(Len(cs) - 2) :
               /\ cs[d] = "."
               /\ \A i \in (d + 1)..Len(cs) : cs[i] \in Letters

Rejected == [ok |-> FALSE, value |-> ""]
Accepted(v) == [ok |-> TRUE, value |-> v]

\* a mutant of EmailField: the schema without .toLowerCase()
EmailFieldAsTyped(cs) ==
    IF IsEmail(cs) /\ Len(cs) <= 255 THEN Accepted(Text(Trim(cs))) ELSE Rejected

\* email().max(255).toLowerCase().trim(): the format and the length are
\* checked on the input as typed, then the value is lower-cased and trimmed
EmailField(cs) ==
    IF IsEmail(cs) /\ Len(cs) <= 255
    THEN Accepted(Text(Trim(ToLowerCase(cs))))
    ELSE Rejected

\* z.string().min(2).max(50).trim()
NameField(cs) ==
    IF Len(cs) >= 2 /\ Len(cs) <= 50 THEN Accepted(Text(Trim(cs))) ELSE Rejected

\* z.string().min(8).max(128)
PasswordField(p) ==
    IF p # Undefined /\ Len(p) >= 8 /\ Len(p) <= 128 THEN Accepted(p) ELSE Rejected

\* a mutant of RoleField: a plain string with the default, no enum
RoleFieldAny(r) == IF r = Undefined THEN Accepted("user") ELSE Accepted(r)

\* z.enum(['user', 'admin']).default('user')
RoleField(r) ==
    IF r = Undefined THEN Accepted("user")
    ELSE IF r \in {"user", "admin"} THEN Accepted(r)
    ELSE Rejected

NoData == [name |-> "", email |-> "", password |-> "", role |-> ""]

signupSchema(body) ==
    LET n == NameField(body.name)
        e == EmailField(body.email)
        p == PasswordField(body.password)
        r == RoleField(body.role)
    IN  IF n.ok /\ e.ok /\ p.ok /\ r.ok
        THEN [success |-> TRUE,
              data |-> [name |-> n.value, email |-> e.value,
                        password |-> p.value, role |-> r.value]]
        ELSE [success |-> FALSE, data |-> NoData]

signInSchema(body) ==
    LET e == EmailField(body.email)
        p == PasswordField(body.password)
    IN  IF e.ok /\ p.ok
        THEN [success |-> TRUE,
              data |-> [name |-> "", email |-> e.value,
                        password |-> p.value, role |-> ""]]
        ELSE [success |-> FALSE, data |-> NoData]

\* request bodies
RawNames == {<<"A", "n", "n">>}
MixedCaseEmail == <<"A", "@", "X", ".", "c", "o", "m">>
PlainEmail == <<"a", "@", "x", ".", "c", "o", "m">>
PaddedEmail == <<" ", "a", "@", "x", ".", "c", "o", "m">>
RawEmails == {MixedCaseEmail, PlainEmail, PaddedEmail}
RawPasswords == {"Secret123", "short"}
RawRoles == {Undefined, "admin", "root"}
SignupBodies == [name : RawNames, email : RawEmails,
                 password : RawPasswords, role : RawRoles]

----------------------------------------------------------------------------
(* The sign-up request: validation, then createUser                        *)

NoBody == [name |-> <<>>, email |-> <<>>, password |-> "", role |-> ""]
NoSignup == [state |-> "none", body |-> NoBody, status |-> 0]

\* the request body is validated; a body the schema refuses is answered 400
SignupReceive(c, body) ==
    /\ signups[c].state = "none"
    /\ signups' = [signups EXCEPT ![c] =
            IF signupSchema(body).success
            THEN [state |-> "validated", body |-> body, status |-> 0]
            ELSE [state |-> "rejected", body |-> body, status |-> 400]]
    /\ UNCHANGED <<userVars, log, tokenVars, appVars, gateVars,
                   sessionVars, flightVars>>

\* createUser is called with the validated data
SignupCall(c) ==
    /\ signups[c].state = "validated"
    /\ LET data == signupSchema(signups[c].body).data
       IN  CreateUserCall(c, data.name, data.email, data.password, data.role)

SignupIdle == signups = [c \in Calls |-> NoSignup]

----------------------------------------------------------------------------
(* The session cookie (README, "cookie-parser") and sign-in / sign-out     *)

NoCookie ==
    [present |-> FALSE, name |-> "", value |-> MalformedToken,
     httpOnly |-> FALSE, secure |-> FALSE, sameSite |-> "", maxAge |-> 0]

\* setCookie(res, name, value): res.cookie with the default attributes
\* (maxAge in milliseconds); no option overrides them
SetCookie(name, value) ==
    [present |-> TRUE, name |-> name, value |-> value,
     httpOnly |-> TRUE, secure |-> (env.NODE_ENV = "production"),
     sameSite |-> "strict", maxAge |-> 7 * 24 * 60 * 60 * 1000]

\* clear(response): the deletion of the cookie named token; the jar drops it
ClearCookie(jar) == NoCookie

Response(op, status, error, cookieSet) ==
    [op |-> op, status |-> status, error |-> error, cookieSet |-> cookieSet]
NoResponse == Response("", 0, "", FALSE)

\* a mutant of SigninFailure: the message names the cause
SigninFailureTelling(cause) ==
    Response("signin", 401,
             IF cause = "unknown-email" THEN "User not found"
                                        ELSE "Invalid password", FALSE)

\* InvalidCredentialsError as the caller sees it
SigninFailure(cause) == Response("signin", 401, "Invalid credentials", FALSE)

\* a mutant of SignoutResponse: a request without a cookie is an error
SignoutResponseStrict(jar) ==
    IF jar.present THEN Response("signout", 200, "", FALSE)
                   ELSE Response("signout", 401, "Not signed in", FALSE)

SignoutResponse(jar) == Response("signout", 200, "", FALSE)

\* what a sign-out does to the jar and answers
SignoutOutcome(jar) == [cookie |-> ClearCookie(jar), resp |-> SignoutResponse(jar)]

NoSignout == [done |-> FALSE, had |-> FALSE, token |-> MalformedToken, at |-> 0]

\* the account that exists before the sign-in requests
AnnRow == NewRow(1, "Ann", "a@x.com", BcryptHash("Secret123", SaltRounds, "saltA"),
                 "user", 0)

UnknownEmail == <<"b", "@", "x", ".", "c", "o", "m">>
SigninBodies ==
    [email : {MixedCaseEmail, PlainEmail, UnknownEmail},
     password : {"Secret123", "Wrong1234", "short"}]

SessionEnvs ==
    [JWT_SECRET : {"strong-production-secret"},
     JWT_EXPIRES_IN : {Undefined, "1h"},
     NODE_ENV : {"production", "development"}]

SessionTimes == {3599, 3600}

\* a sign-in that fails on the credentials: same answer, nothing issued
SigninRefuse(cause) ==
    /\ resp' = SigninFailure(cause)
    /\ failures' = failures \cup {[cause |-> cause, resp |-> SigninFailure(cause)]}
    /\ UNCHANGED <<cookie, issued, log>>

\* POST sign-in: validate, look the email up, compare the password, sign the
\* token, set the cookie
Signin(body) ==
    /\ svc = "up"
    /\ LET parsed == signInSchema(body)
           found == {u \in users : u.email = parsed.data.email}
       IN  IF ~parsed.success
           THEN /\ resp' = Response("signin", 400, "Validation failed", FALSE)
                /\ UNCHANGED <<cookie, failures, issued, log>>
           ELSE IF found = {}
           THEN SigninRefuse("unknown-email")
           ELSE LET u == CHOOSE u \in found : TRUE
                IN  IF ~BcryptCompare(parsed.data.password, u.password)
                    THEN SigninRefuse("wrong-password")
                    ELSE LET r == JwtSign([id |-> u.id, role |-> u.role],
                                          JWT_SECRET, JWT_EXPRIRES_IN, now)
                         IN  IF r.ok
                             THEN /\ Cardinality(issued \cup {r.token}) <= MaxTokens
                                  /\ issued' = issued \cup {r.token}
                                  /\ cookie' = SetCookie("token", r.token)
                                  /\ resp' = Response("signin", 200, "", TRUE)
                                  /\ UNCHANGED <<failures, log>>
                             ELSE /\ Len(log) < MaxLog
                                  /\ log' = log \o <<LogEntry("error",
                                                 <<SignFailedMsg>>, r.err)>>
                                  /\ resp' = Response("signin", 500,
                                                      SignFailedMsg, FALSE)
                                  /\ UNCHANGED <<cookie, failures, issued>>
    /\ UNCHANGED <<userVars, env, svc, now, verified, signout,
                   appVars, gateVars, signupVars, flightVars>>

\* POST sign-out: the cookie is cleared, whatever the jar holds
Signout ==
    /\ svc = "up"
    /\ cookie' = SignoutOutcome(cookie).cookie
    /\ resp' = SignoutOutcome(cookie).resp
    /\ signout' = [done |-> TRUE, had |-> cookie.present,
                   token |-> cookie.value, at |-> now]
    /\ UNCHANGED <<userVars, log, tokenVars, failures,
                   appVars, gateVars, signupVars, flightVars>>

SessionIdle ==
    /\ cookie = NoCookie
    /\ resp = NoResponse
    /\ failures = {}
    /\ signout = NoSignout

----------------------------------------------------------------------------
(* Requests in flight between securityMiddleware and the rate-limit counter *)

NumFlights == 2
FlightIds == 1..NumFlights

NoIdentity == [key |-> "", role |-> ""]
IdleFlight == [state |-> "idle", id |-> NoIdentity, seen |-> 0]

\* a mutant of CountSeen: the rule is evaluated on the count read when
\* protect() was called
CountSeenAtCall(f) == flights[f].seen

\* the count the rate-limit rule is evaluated on: the counter's value at the
\* moment of the update (check and increment are one step)
CountSeen(f) == Len(window[flights[f].id.key])

\* securityMiddleware up to `await client.protect(req)`
ProtectCall(f, id) ==
    /\ id \in active
    /\ flights[f].state = "idle"
    /\ flights' = [flights EXCEPT ![f] =
            [state |-> "protecting", id |-> id, seen |-> Len(window[id.key])]]
    /\ UNCHANGED <<userVars, log, tokenVars, appVars, gateVars,
                   signupVars, sessionVars, admitted>>

\* the rate-limit rule decides the request of flight f and counts it
ProtectSettle(f) ==
    /\ flights[f].state = "protecting"
    /\ LET id == flights[f].id
           limit == LimitFor(RoleOf(id.role))
       IN  IF CountSeen(f) >= limit
           THEN /\ last' = Outcome(id, "deny", "rate-limit", FALSE)
                /\ UNCHANGED <<window, admitted>>
           ELSE /\ last' = Outcome(id, "allow", "", TRUE)
                /\ window' = [window EXCEPT ![id.key] = <<0>> \o @]
                /\ admitted' = [admitted EXCEPT ![id.key] = <<0>> \o @]
    /\ flights' = [flights EXCEPT ![f] = IdleFlight]
    /\ UNCHANGED <<userVars, log, tokenVars, appVars, failOpen, active,
                   signupVars, sessionVars>>

\* a whole window passes while requests are in flight
WindowPasses ==
    /\ \E k \in Keys : window[k] # <<>> \/ admitted[k] # <<>>
    /\ window' = [k \in Keys |-> Aged(window[k], WindowSeconds)]
    /\ admitted' = [k \in Keys |-> Aged(admitted[k], WindowSeconds)]
    /\ UNCHANGED <<userVars, log, tokenVars, appVars, failOpen, active, last,
                   signupVars, sessionVars, flights>>

FlightIdle ==
    /\ flights = [f \in FlightIds |-> IdleFlight]
    /\ admitted = [k \in Keys |-> <<>>]

----------------------------------------------------------------------------
(* Specifications                                                          *)

\* createUser calls against the store
Init ==
    /\ UserInit
    /\ log = <<>>
    /\ TokenIdle
    /\ AppIdle
    /\ SignupIdle
    /\ SessionIdle
    /\ FlightIdle
    /\ GateIdle

Next ==
    \/ \E c \in Calls, n \in Names, e \in Emails, p \in Passwords, r \in Roles :
           CreateUserCall(c, n, e, p, r)
    \/ \E c \in Calls, s \in Salts : HashPasswordSettle(c, s)
    \/ \E c \in Calls : InsertSettle(c)
    \/ \E c \in Calls : InsertFail(c)

Spec == Init /\ [][Next]_vars

\* sign-up requests: validation, then createUser against the store
SignupInit ==
    /\ UserInit
    /\ log = <<>>
    /\ TokenIdle
    /\ AppIdle
    /\ SignupIdle
    /\ SessionIdle
    /\ FlightIdle
    /\ GateIdle

SignupNext ==
    \/ \E c \in Calls, body \in SignupBodies : SignupReceive(c, body)
    \/ \E c \in Calls : SignupCall(c)
    \/ \E c \in Calls, s \in Salts : HashPasswordSettle(c, s)
    \/ \E c \in Calls : InsertSettle(c)
    \/ \E c \in Calls : InsertFail(c)

SignupSpec == SignupInit /\ [][SignupNext]_vars

\* sign-in and sign-out of one client against a store that holds an account
SessionInit ==
    /\ users = {AnnRow}
    /\ nextId = 2
    /\ calls = [c \in Calls |-> IdleCall]
    /\ log = <<>>
    /\ env \in SessionEnvs
    /\ svc = "up"
    /\ now = 0
    /\ issued = {}
    /\ verified = NotVerified
    /\ AppIdle
    /\ SignupIdle
    /\ SessionIdle
    /\ FlightIdle
    /\ GateIdle

SessionNext ==
    \/ \E body \in SigninBodies : Signin(body)
    \/ Signout
    \/ \E t \in issued : JwttokenVerify(t)
    \/ \E t \in SessionTimes : Tick(t)

SessionSpec == SessionInit /\ [][SessionNext]_vars

\* concurrent requests of one identity through the rate-limit rule
FlightInit ==
    /\ UserInit
    /\ log = <<>>
    /\ TokenIdle
    /\ AppIdle
    /\ SignupIdle
    /\ SessionIdle
    /\ FlightIdle
    /\ failOpen = FALSE
    /\ active \in {{i} : i \in Identities}
    /\ window = [k \in Keys |-> <<>>]
    /\ last = NoOutcome

FlightNext ==
    \/ \E f \in FlightIds, id \in Identities : ProtectCall(f, id)
    \/ \E f \in FlightIds : ProtectSettle(f)
    \/ WindowPasses

FlightSpec == FlightInit /\ [][FlightNext]_vars

\* the token service under a clock, for every environment
TokenInit ==
    /\ UserInit
    /\ log = <<>>
    /\ env \in Envs
    /\ svc = "loading"
    /\ now = 0
    /\ issued = {}
    /\ verified = NotVerified
    /\ AppIdle
    /\ SignupIdle
    /\ SessionIdle
    /\ FlightIdle
    /\ GateIdle

TokenNext ==
    \/ LoadJwtModule
    \/ \E c \in ClaimSets : JwttokenSign(c)
    \/ \E t \in Presentable : JwttokenVerify(t)
    \/ \E t \in TimePoints : Tick(t)

TokenSpec == TokenInit /\ [][TokenNext]_vars

\* requests through the express app of app.js
AppInit ==
    /\ UserInit
    /\ log = <<>>
    /\ TokenIdle
    /\ AppIdle
    /\ SignupIdle
    /\ SessionIdle
    /\ FlightIdle
    /\ GateIdle

AppNext ==
    \/ \E r \in ReqIds, m \in Methods, p \in Paths : Receive(r, m, p)
    \/ \E r \in ReqIds : Dispatch(r)
    \/ \E r \in ReqIds, st \in PipelineStatuses : PipelineRespond(r, st)

AppSpec == AppInit /\ [][AppNext]_vars

\* requests of two identities through the security middleware
GateInit ==
    /\ UserInit
    /\ log = <<>>
    /\ TokenIdle
    /\ AppIdle
    /\ SignupIdle
    /\ SessionIdle
    /\ FlightIdle
    /\ failOpen \in BOOLEAN
    /\ active \in {a \in SUBSET Identities : Cardinality(a) = 2}
    /\ window = [k \in Keys |-> <<>>]
    /\ last = NoOutcome

GateNext ==
    \/ \E id \in Identities, bot \in BOOLEAN, shield \in BOOLEAN, down \in BOOLEAN :
           SecurityMiddleware(id, bot, shield, down)
    \/ \E d \in Steps : Elapse(d)

GateSpec == GateInit /\ [][GateNext]_vars

----------------------------------------------------------------------------
(* Claims about createUser and hashPassword                                *)

Done(c) == calls[c].pc = "done"
Succeeded(c) == Done(c) /\ calls[c].inserted # NoRow

\* C1: every createUser call (here: with a password bcrypt accepts) made for an
\* email that already has a record fails with the duplicate-email error
\* 'User with this email already exists' and inserts nothing.
C1_DuplicateEmailRejected ==
    \A c \in Calls :
        (Done(c) /\ calls[c].existed /\ BcryptAccepts(calls[c].password)
                 /\ calls[c].attempted)
            => /\ calls[c].err.message = DuplicateEmailMsg
               /\ calls[c].inserted = NoRow

\* C2: for concurrent createUser calls with the same email (both began while no
\* record had the email), no two records share an email, at most one call
\* inserts, and every other call whose insert the store evaluated ends with the
\* duplicate-email error.
C2_ConcurrentSignupUnique ==
    /\ \A u, v \in users : u.email = v.email => u = v
    /\ \A c, d \in Calls :
           (c # d /\ Done(c) /\ Done(d) /\ calls[c].email = calls[d].email
                  /\ ~calls[c].existed /\ ~calls[d].existed
                  /\ Succeeded(d) /\ calls[c].attempted)
               => /\ ~Succeeded(c)
                  /\ calls[c].err.message = DuplicateEmailMsg

\* the store-level half of C2, which the unique constraint does give
EmailUnique == \A u, v \in users : u.email = v.email => u = v

\* C3: every successful createUser call returns exactly the fields id, name,
\* email, role and createdAt of the inserted row, and never the password hash.
C3_PublicProjection ==
    \A c \in Calls :
        Succeeded(c) =>
            /\ DOMAIN calls[c].result = {"id", "name", "email", "role", "createdAt"}
            /\ \A k \in DOMAIN calls[c].result :
                   calls[c].result[k] = calls[c].inserted[k]

\* the part of C3 that the code does give: no password in the returned value
NoPasswordReturned ==
    \A c \in Calls : Succeeded(c) => "password" \notin DOMAIN calls[c].result

PlainPasswords == Passwords \ {Undefined}

\* C4: the plaintext password is in no stored password field (the field holds
\* hash(pw), with hash(pw) # pw and compare(pw, hash(pw)) true) and in no log
\* entry of hashPassword or createUser, on the success and the error paths.
C4_PlaintextNeverStoredOrLogged ==
    /\ \A c \in Calls :
           Succeeded(c) =>
               /\ calls[c].inserted \in users
               /\ calls[c].inserted.password # calls[c].password
               /\ BcryptCompare(calls[c].password, calls[c].inserted.password)
    /\ \A u \in users : u.password \notin PlainPasswords
    /\ \A i \in DOMAIN log :
           /\ Range(log[i].message) \cap PlainPasswords = {}
           /\ log[i].error.message \notin PlainPasswords
           /\ Range(log[i].error.params) \cap PlainPasswords = {}

\* a row was stored, an insert error was logged with its parameters, and a
\* hashing failure was logged
C4_Witness ==
    /\ \E c \in Calls : Succeeded(c) /\ calls[c].password \in PlainPasswords
    /\ \E i \in DOMAIN log : log[i].level = "error" /\ log[i].error.params # <<>>

----------------------------------------------------------------------------
(* Claims about jwttoken                                                   *)

\* the signature of t is the server's signature of t's payload
Intact(t) ==
    /\ t.wellFormed
    /\ t.sig.of = t.payload
    /\ t.sig.key = JWT_SECRET
    /\ ~t.sig.flip

\* C5: jwttoken.verify returns claims only for a token with an intact signature
\* and an expiry that has not passed; for every other token (tampered,
\* malformed, expired) it throws the one error 'Invalid token' and returns
\* nothing.
C5_VerifyAllOrNothing ==
    verified.done =>
        LET t == verified.token
        IN  /\ verified.ok <=> (Intact(t) /\ verified.at < t.payload.exp)
            /\ verified.ok => (verified.value = t.payload /\ verified.err = NoError)
            /\ ~verified.ok =>
                   /\ verified.value = NoPayload
                   /\ verified.err = Err(InvalidTokenMsg, <<>>)

\* an issued token with one signature byte flipped was refused before its expiry
C5_Witness ==
    /\ verified.done /\ ~verified.ok
    /\ \E t \in issued : verified.token = FlipSignature(t)
                           /\ verified.at < t.payload.exp

C6_AcceptedWitness ==
    /\ verified.done /\ verified.ok
    /\ verified.token \in issued
    /\ verified.at = verified.token.payload.exp - 1

\* C7: when no token secret is configured, the service never signs and never
\* verifies a token, and never uses a built-in default secret.
C7_MissingSecretIsFatal ==
    env.JWT_SECRET = Undefined =>
        /\ issued = {}
        /\ ~verified.done

----------------------------------------------------------------------------
(* Claims about the admission gate                                         *)

\* C8: every request routed to the auth pipeline (a route under /api/auth) has
\* first been through the admission gate, which returned allow.
C8_GateBeforePipeline ==
    \A r \in ReqIds :
        (\E j \in DOMAIN reqs[r].ran : reqs[r].ran[j] = "authRoutes") =>
            /\ reqs[r].gate = "allow"
            /\ \E i, j \in DOMAIN reqs[r].ran :
                   /\ i < j
                   /\ reqs[r].ran[i] = "securityMiddleware"
                   /\ reqs[r].ran[j] = "authRoutes"

\* the limits the claim states, by identity key
ClaimedLimit(key) == IF key = "a1" THEN 20 ELSE IF key = "u1" THEN 10 ELSE 5

\* the outcome was decided by the rate-limit rule
RateDecided == last.decision # "none" /\ last.reason \in {"", "rate-limit"}

C9_ReadmittedWitness ==
    /\ last.key = "anon" /\ last.decision = "allow"
    /\ window["anon"] = <<0, 0, 0, 30, 30>>

----------------------------------------------------------------------------
(* Claims about the order and the failures of createUser                   *)

\* the rows hold a cost-12 bcrypt hash of a real password
StrongHash(h) ==
    \E p \in PlainPasswords, s \in Salts : h = BcryptHash(p, 12, s)

\* C17: when hashing fails, hashPassword raises 'Error hashing password' and
\* gives no value; createUser fails with that error, sends no insert and
\* stores nothing: every stored password is a full-cost bcrypt hash.
C17_HashFailureStoresNothing ==
    /\ \A c \in Calls :
           (calls[c].pc \in {"inserting", "done"}
                /\ ~BcryptAccepts(calls[c].password)) =>
               /\ calls[c].pc = "done"
               /\ calls[c].err = Err(HashingMsg, <<>>)
               /\ calls[c].passwordHash = ""
               /\ calls[c].result = NoResult
               /\ calls[c].insertsSent = 0
               /\ calls[c].inserted = NoRow
               /\ \A u \in users : u.password # calls[c].password
    /\ \A u \in users : StrongHash(u.password)

\* a call ended with the hashing error while another call's row is stored
C17_Witness ==
    /\ \E c \in Calls : Done(c) /\ calls[c].err.message = HashingMsg
    /\ \E i \in DOMAIN log : log[i].message = <<HashingMsg>>
    /\ users # {}

\* the 'User created' entries of the log
CreationEntries == {i \in DOMAIN log : log[i].message[1] = "User created with email: "}

\* C18: within a createUser call the order is lookup, hash, insert, creation
\* log: for an email that has a record neither hash nor insert is performed, an
\* insert is sent only after the hash completed, and 'User created' is logged
\* only for an insert that succeeded.
C18_StepOrder ==
    /\ \A c \in Calls :
           /\ calls[c].existed => (~calls[c].hashed /\ calls[c].insertsSent = 0)
           /\ calls[c].insertsSent > 0 => calls[c].hashed
           /\ calls[c].attempted => calls[c].insertsSent > 0
    /\ Cardinality(CreationEntries) = Cardinality({c \in Calls : Succeeded(c)})

\* the entries 'Error creating user' that carry the error e
LoggedFailure(e) ==
    \E i \in DOMAIN log :
        /\ log[i].level = "error"
        /\ log[i].message = <<"Error creating user">>
        /\ log[i].error = e

\* C20: a createUser call sends the insert at most once; a failure of the
\* hash or of the insert is logged and rethrown without a retry, and the call
\* returns normally only when its one insert succeeded.
C20_SingleInsertNoRetry ==
    \A c \in Calls :
        /\ calls[c].insertsSent <= 1
        /\ (Done(c) /\ calls[c].err # NoError) =>
               /\ LoggedFailure(calls[c].err)
               /\ calls[c].result = NoResult
               /\ calls[c].inserted = NoRow
        /\ (Done(c) /\ calls[c].err = NoError) =>
               /\ Succeeded(c)
               /\ calls[c].insertsSent = 1
               /\ calls[c].inserted \in users

\* a call ended on a failed or refused insert after sending it once, and
\* another call returned its row
C20_Witness ==
    /\ \E c \in Calls : /\ Done(c)
                        /\ calls[c].err.message \in {StoreDownMsg, UniqueViolationMsg}
                        /\ calls[c].insertsSent = 1
    /\ \E c \in Calls : Succeeded(c) /\ calls[c].insertsSent = 1

----------------------------------------------------------------------------
(* Claims about the validated sign-up                                      *)

\* two inputs that differ in casing only
SameIgnoringCase(a, b) ==
    /\ Len(a) = Len(b)
    /\ \A i \in DOMAIN a :
           \/ a[i] = b[i]
           \/ \E k \in DOMAIN Upper :
                  {a[i], b[i]} = {Upper[k], Lower[k]}

\* the sign-up request c reached createUser
Called(c) == signups[c].state = "validated" /\ calls[c].pc # "idle"

\* C15: the stored email is the lower-case trimmed form of every valid input
\* email whatever its casing (A@X.com is stored as a@x.com), inputs differing
\* in casing meet in one record, and sign-in normalises the same way, so an
\* email accepted at sign-up is found at sign-in under any casing.
C15_EmailNormalized ==
    /\ \A u \in users : u.email \in {"a@x.com"}
    /\ \A c \in Calls :
           (Called(c) /\ signups[c].body.email = MixedCaseEmail) =>
               calls[c].email = "a@x.com"
    /\ \A c, d \in Calls :
           (Called(c) /\ Called(d)
                /\ SameIgnoringCase(signups[c].body.email, signups[d].body.email)) =>
               calls[c].email = calls[d].email
    /\ \A c \in Calls, raw \in RawEmails :
           (Called(c) /\ Succeeded(c)
                /\ SameIgnoringCase(raw, signups[c].body.email)) =>
               LET parsed == signInSchema([email |-> raw, password |-> "Secret123"])
               IN  /\ parsed.success
                   /\ {u \in users : u.email = parsed.data.email}
                          = {calls[c].inserted}

\* A@X.com has been signed up and stored, and a sign-up of a@x.com met it
C15_Witness ==
    \E c, d \in Calls :
        /\ Called(c) /\ Succeeded(c)
        /\ signups[c].body.email = MixedCaseEmail
        /\ calls[c].inserted.email = "a@x.com"
        /\ Called(d) /\ Done(d)
        /\ signups[d].body.email = PlainEmail
        /\ calls[d].err.message = UniqueViolationMsg

\* C16: the role of every stored user is user or admin: a sign-up that
\* omits the role stores user, and a role outside the two is refused with a
\* validation error and no record is inserted for it.
C16_RoleInEnum ==
    /\ \A u \in users : u.role \in {"user", "admin"}
    /\ \A c \in Calls :
           (Called(c) /\ Succeeded(c) /\ signups[c].body.role = Undefined) =>
               calls[c].inserted.role = "user"
    /\ \A c \in Calls :
           (signups[c].state # "none"
                /\ signups[c].body.role \notin {Undefined, "user", "admin"}) =>
               /\ signups[c].state = "rejected"
               /\ signups[c].status = 400
               /\ calls[c] = IdleCall

\* a sign-up without a role is stored as user, and one asking for root,
\* valid in every other field, has been refused
C16_Witness ==
    /\ \E c \in Calls :
           /\ Called(c) /\ Succeeded(c)
           /\ signups[c].body.role = Undefined
           /\ calls[c].inserted.role = "user"
    /\ \E c \in Calls :
           /\ signups[c].state = "rejected"
           /\ signups[c].body.role = "root"
           /\ signups[c].body.email = PlainEmail
           /\ signups[c].body.password = "Secret123"

----------------------------------------------------------------------------
(* Claims about sign-in, sign-out and the session cookie                   *)

\* every failed sign-in seen so far got the one generic unauthorized answer
FailuresAlike ==
    \A a, b \in failures :
        /\ a.resp = b.resp
        /\ a.resp.status = 401
        /\ ~a.resp.cookieSet

\* a step that answers a sign-in with the unauthorized error
RefusedStep ==
    /\ resp'.op = "signin" /\ resp'.status = 401
    /\ (resp' # resp \/ failures' # failures)

SignedOutTokenJudgedByExpiry ==
    (verified.done /\ signout.done /\ signout.had
         /\ signout.token = verified.token) =>
        /\ verified.ok <=> verified.at < verified.token.payload.exp
        /\ verified.ok => verified.value = verified.token.payload

\* C13: sign-out changes no server-side state: a token that verified before
\* the sign-out still verifies after it, until its expiry; jwttoken.verify
\* depends on the token, the secret and the time, and on no revocation record.
C13_SignoutKeepsTokenValid ==
    /\ []SignedOutTokenJudgedByExpiry
    /\ [][signout' # signout =>
              UNCHANGED <<users, nextId, issued, env, svc, log, verified>>]_vars

\* a token verified after the sign-out that dropped it
C13_Witness ==
    /\ verified.done /\ verified.ok
    /\ signout.done /\ signout.had
    /\ signout.token = verified.token
    /\ signout.at < verified.at

----------------------------------------------------------------------------
(* Claims about concurrent requests at the admission gate                  *)

====
